---- MODULE Spec2Model ----
(***************************************************************************)
(* Double pendulum (final_double_pendulum.ipynb): the DoublePendulum       *)
(* class, its right-hand side dy_dt and its driver solve_ode, which hands  *)
(* dy_dt to scipy.integrate.solve_ivp with t_eval = t_pts.                 *)
(*                                                                         *)
(* Numbers.  The program computes in IEEE doubles; the model computes in   *)
(* exact fixed point on a lattice:                                         *)
(*   - an angle is a pair <<q, j>> standing for q*(pi/2) + j*atan(3/4);    *)
(*     its sine and cosine are exact rationals with denominator Scale;     *)
(*   - velocities, masses, lengths, g and times are integers;              *)
(*   - a quotient n/d is the pair <<n, d>>; d = 0 is the double division   *)
(*     by zero (inf or nan), a magnitude above FloatMax is overflow.       *)
(* The explicit Runge-Kutta step of the library is one first-order step of *)
(* unit length on this lattice, rounding quotients as doubles round.       *)
(***************************************************************************)
EXTENDS Integers, Sequences, FiniteSets, TLC

VARIABLES ctor, self, frame, probe

vars == <<ctor, self, frame, probe>>

(* ------------------------------ bounds -------------------------------- *)

\* largest magnitude a velocity can hold; above it the value is non-finite
FloatMax == 3

\* last time of the time grids
MaxT == 2

\* number of solve_ode invocations of one run, all on the one shared model
NumCalls == 2

(* ---------------------------- fixed point ----------------------------- *)

\* np.cos and np.sin return multiples of 1/Scale on the angle lattice
Scale == 25

Angle(q, j) == <<q, j>>

AngleSub(a, b) == <<a[1] - b[1], a[2] - b[2]>>

AngleAdd(a, n) == <<a[1] + n, a[2]>>

\* Scale * cos(j * atan(3/4)), Scale * sin(j * atan(3/4)) for j in -2..2
CosOff(j) == CASE j = 0 -> 25 [] j \in {-1, 1} -> 20 [] j \in {-2, 2} -> 7

SinOff(j) ==
    CASE j = 0 -> 0 [] j = 1 -> 15 [] j = -1 -> -15 [] j = 2 -> 24 [] j = -2 -> -24

np_cos(a) ==
    LET q == a[1] % 4
    IN  CASE q = 0 -> CosOff(a[2])
          [] q = 1 -> -SinOff(a[2])
          [] q = 2 -> -CosOff(a[2])
          [] q = 3 -> SinOff(a[2])

np_sin(a) ==
    LET q == a[1] % 4
    IN  CASE q = 0 -> SinOff(a[2])
          [] q = 1 -> CosOff(a[2])
          [] q = 2 -> -SinOff(a[2])
          [] q = 3 -> -CosOff(a[2])

\* the double quotient n / d, kept exact
Quot(n, d) == <<n, d>>

\* a quotient is finite unless the divisor is zero (inf or nan in doubles)
QuotFinite(x) == x[2] # 0

\* a quotient rounded onto the lattice (toward minus infinity)
Round(x) == IF x[2] > 0 THEN x[1] \div x[2] ELSE (0 - x[1]) \div (0 - x[2])

Abs(n) == IF n < 0 THEN 0 - n ELSE n

(* --------------------------- DoublePendulum --------------------------- *)

\* __init__ with two fields exchanged
DoublePendulum_swapped(L1, L2, m1, m2, g) ==
    [L1 |-> L1, L2 |-> L2, g |-> g, m1 |-> m2, m2 |-> m1]

\* __init__: the five fields of the new object
DoublePendulum(L1, L2, m1, m2, g) ==
    [L1 |-> L1, L2 |-> L2, g |-> g, m1 |-> m1, m2 |-> m2]

\* d of dy_dt with the sign of its second term slipped
dy_dt_d_minus(s, y) ==
    LET sinp == np_sin(AngleSub(y[1], y[3]))
    IN  s.m1 * Scale * Scale - s.m2 * sinp * sinp

\* d of dy_dt, in units of 1/Scale^2
dy_dt_d(s, y) ==
    LET sinp == np_sin(AngleSub(y[1], y[3]))
    IN  s.m1 * Scale * Scale + s.m2 * sinp * sinp

\* dy_dt with L1 written for L2 in the last term of phi2_doubledot
dy_dt_L1_for_L2(s, t, y) ==
    LET cosp == np_cos(AngleSub(y[1], y[3]))
        sinp == np_sin(AngleSub(y[1], y[3]))
        d == dy_dt_d(s, y)
        phi1_doubledot ==
            Quot(s.m2 * s.g * np_sin(y[3]) * cosp
                   - s.m2 * sinp * (s.L1 * y[2] * y[2] * cosp
                                     + s.L2 * y[4] * y[4] * Scale)
                   - (s.m1 + s.m2) * s.g * np_sin(y[1]) * Scale,
                 s.L1 * d)
        phi2_doubledot ==
            Quot((s.m1 + s.m2) * (s.L1 * y[2] * y[2] * sinp * Scale
                                    - s.g * np_sin(y[3]) * Scale
                                    + s.g * np_sin(y[1]) * cosp)
                   + s.m2 * s.L1 * y[4] * y[4] * sinp * cosp,
                 s.L2 * d)
    IN  <<y[2], phi1_doubledot, y[4], phi2_doubledot>>

\* dy_dt: y = <<phi1, phi1_dot, phi2, phi2_dot>> (the code's y[0..3]);
\* the numerators are in units of 1/Scale^2 like d, so the unit cancels
dy_dt(s, t, y) ==
    LET cosp == np_cos(AngleSub(y[1], y[3]))
        sinp == np_sin(AngleSub(y[1], y[3]))
        d == dy_dt_d(s, y)
        phi1_doubledot ==
            Quot(s.m2 * s.g * np_sin(y[3]) * cosp
                   - s.m2 * sinp * (s.L1 * y[2] * y[2] * cosp
                                     + s.L2 * y[4] * y[4] * Scale)
                   - (s.m1 + s.m2) * s.g * np_sin(y[1]) * Scale,
                 s.L1 * d)
        phi2_doubledot ==
            Quot((s.m1 + s.m2) * (s.L1 * y[2] * y[2] * sinp * Scale
                                    - s.g * np_sin(y[3]) * Scale
                                    + s.g * np_sin(y[1]) * cosp)
                   + s.m2 * s.L2 * y[4] * y[4] * sinp * cosp,
                 s.L2 * d)
    IN  <<y[2], phi1_doubledot, y[4], phi2_doubledot>>

(* ------------------------------ solve_ivp ----------------------------- *)

Max(a, b) == IF a >= b THEN a ELSE b

Min(a, b) == IF a <= b THEN a ELSE b

\* solve_ivp's checks of t_eval against t_span = (t_pts[0], t_pts[-1]):
\* every value within the span, and sorted in the direction of the span
\* (a span of length zero has no direction and skips the second check)
t_eval_ok(t_pts) ==
    LET t0 == t_pts[1]
        tf == t_pts[Len(t_pts)]
        n == Len(t_pts)
    IN  /\ \A i \in 1..n : t_pts[i] >= Min(t0, tf) /\ t_pts[i] <= Max(t0, tf)
        /\ ~(tf > t0 /\ \E i \in 1..(n - 1) : t_pts[i + 1] - t_pts[i] <= 0)
        /\ ~(tf < t0 /\ \E i \in 1..(n - 1) : t_pts[i + 1] - t_pts[i] >= 0)

\* direction of integration: the sign of tf - t0, 1 for a span of length zero
direction(t_pts) == IF t_pts[Len(t_pts)] < t_pts[1] THEN 0 - 1 ELSE 1

\* is every component of the state finite
y_finite(y) == Abs(y[2]) <= FloatMax /\ Abs(y[4]) <= FloatMax

\* one explicit step of unit length from y in direction dir
rk_step(s, t, y, dir) ==
    LET f == dy_dt(s, t, y)
    IN  <<AngleAdd(y[1], dir * f[1]), y[2] + dir * Round(f[2]),
          AngleAdd(y[3], dir * f[3]), y[4] + dir * Round(f[4])>>

\* the step is accepted when its error estimate is finite: a non-finite
\* derivative or new state shrinks the step below the spacing of doubles
step_ok(s, t, y, dir) ==
    LET f == dy_dt(s, t, y)
    IN  /\ QuotFinite(f[2])
        /\ QuotFinite(f[4])
        /\ y_finite(rk_step(s, t, y, dir))

\* number of leading entries of t_eval the solver has reached at time t
\* (np.searchsorted on t_eval, which is sorted in the direction dir)
reached(t_pts, t, dir) ==
    Cardinality({i \in 1..Len(t_pts) : dir * (t_pts[i] - t) <= 0})

\* the sequence s cut to entries from + 1 .. to
Slice(s, from, to) == [i \in 1..(to - from) |-> s[from + i]]

\* the dense output of the step from (t_old, y_old) to (t_new, y_new) at the
\* times ts; a time of the lattice within a unit step is one of its two ends
dense_output(t_old, y_old, t_new, y_new, ts) ==
    [i \in 1..Len(ts) |-> IF ts[i] = t_new THEN y_new ELSE y_old]

(* ------------------------------ solve_ode ----------------------------- *)

Calls == 1..NumCalls

\* the local y of invocation c, read from the frame of invocation 1
local_y_shared(c) == frame[1].y

\* the local y of invocation c (line 177: y is a local of the call)
local_y(c) == frame[c].y

\* y built from the arguments, unless an earlier call has left its last
\* state behind
solve_ode_y_kept(y0) ==
    IF \E k \in Calls : frame[k].pc = "returned"
    THEN frame[CHOOSE k \in Calls : frame[k].pc = "returned"].y
    ELSE y0

\* y = [phi1_0, phi1_dot_0, phi2_0, phi2_dot_0]
solve_ode_y(y0) == y0

\* the four rows of solution.y
solution_y(sol_y) ==
    <<[i \in 1..Len(sol_y) |-> sol_y[i][1]], [i \in 1..Len(sol_y) |-> sol_y[i][2]],
      [i \in 1..Len(sol_y) |-> sol_y[i][3]], [i \in 1..Len(sol_y) |-> sol_y[i][4]]>>

Y00 == <<Angle(0, 0), 0, Angle(0, 0), 0>>

IdleFrame ==
    [pc |-> "idle", t_pts |-> <<>>, y0 |-> Y00, invoked |-> FALSE, nfev |-> 0,
     t |-> 0, y |-> Y00, sol_t |-> <<>>, sol_y |-> <<>>, status |-> "none",
     exc |-> "none", ret |-> <<>>]

\* solve_ode up to the construction of the solver inside solve_ivp:
\* builds y (handed in as y), reads t_pts[0] and t_pts[-1], calls solve_ivp,
\* which checks t_eval and constructs the solver; the constructor evaluates
\* dy_dt once
solve_ode_enter(t_pts, y0, y) ==
    LET f == [IdleFrame EXCEPT !.t_pts = t_pts, !.y0 = y0]
    IN  IF t_pts = <<>>
        THEN [f EXCEPT !.pc = "raised", !.exc = "IndexError"]
        ELSE IF ~t_eval_ok(t_pts)
        THEN [f EXCEPT !.pc = "raised", !.exc = "ValueError", !.invoked = TRUE]
        ELSE [f EXCEPT !.pc = "stepping", !.invoked = TRUE, !.nfev = 1,
                       !.t = t_pts[1], !.y = y]

\* one pass of solve_ivp's loop on the frame f whose state reads y:
\* solver.step(), then the samples of t_eval that the step has reached
solve_ivp_loop(s, f, y) ==
    LET dir == direction(f.t_pts)
        tb == f.t_pts[Len(f.t_pts)]
        n == Len(f.sol_t)
    IN  IF f.t = tb
        THEN \* nothing left to integrate: finished, all of t_eval sampled
             LET ts == Slice(f.t_pts, n, reached(f.t_pts, f.t, dir))
             IN  [f EXCEPT !.pc = "unpack", !.status = "finished",
                           !.sol_t = f.sol_t \o ts,
                           !.sol_y = f.sol_y \o dense_output(f.t, y, f.t, y, ts)]
        ELSE IF ~step_ok(s, f.t, y, dir)
        THEN \* step size too small: status -1, the loop breaks
             [f EXCEPT !.pc = "unpack", !.status = "failed", !.nfev = f.nfev + 1]
        ELSE LET tn == f.t + dir
                 yn == rk_step(s, f.t, y, dir)
                 ts == Slice(f.t_pts, n, reached(f.t_pts, tn, dir))
             IN  [f EXCEPT !.pc = IF tn = tb THEN "unpack" ELSE "stepping",
                           !.status = IF tn = tb THEN "finished" ELSE "none",
                           !.nfev = f.nfev + 1, !.t = tn, !.y = yn,
                           !.sol_t = f.sol_t \o ts,
                           !.sol_y = f.sol_y \o dense_output(f.t, y, tn, yn, ts)]

\* phi1, phi1_dot, phi2, phi2_dot = solution.y; return them
\* (solution.y is an empty list when no sample was taken: the unpacking fails)
solve_ode_return(f) ==
    IF f.sol_y = <<>>
    THEN [f EXCEPT !.pc = "raised", !.exc = "ValueError"]
    ELSE [f EXCEPT !.pc = "returned", !.ret = solution_y(f.sol_y)]

\* solve_ode run from entry to exit with nothing else running
RECURSIVE solve_ode_run(_, _)
solve_ode_run(s, f) ==
    CASE f.pc = "stepping" -> solve_ode_run(s, solve_ivp_loop(s, f, f.y))
      [] f.pc = "unpack" -> solve_ode_return(f)
      [] OTHER -> f

solve_ode(s, t_pts, y0) == solve_ode_run(s, solve_ode_enter(t_pts, y0, y0))

SolveOde(c, t_pts, y0) ==
    /\ frame[c].pc = "idle"
    /\ \A k \in Calls : k < c => frame[k].pc # "idle"
    /\ frame' = [frame EXCEPT ![c] = solve_ode_enter(t_pts, y0, solve_ode_y(y0))]
    /\ UNCHANGED <<ctor, self, probe>>

Step(c) ==
    /\ frame[c].pc = "stepping"
    /\ frame' = [frame EXCEPT ![c] = solve_ivp_loop(self, frame[c], local_y(c))]
    /\ UNCHANGED <<ctor, self, probe>>

Return(c) ==
    /\ frame[c].pc = "unpack"
    /\ frame' = [frame EXCEPT ![c] = solve_ode_return(frame[c])]
    /\ UNCHANGED <<ctor, self, probe>>

\* a direct call of dy_dt on the model
DyDtCall(t, y) ==
    /\ probe' = [t |-> t, y |-> y, out |-> dy_dt(self, t, y)]
    /\ UNCHANGED <<ctor, self, frame>>

(* ------------------------------- inputs ------------------------------- *)

\* time grids: empty, one entry, increasing with a time skipped, three
\* entries, decreasing, repeated, out of order, repeated then increasing
TGrids ==
    {<<>>, <<0>>, <<0, MaxT>>, <<0, 1, MaxT>>, <<1, 0>>, <<0, 0>>,
     <<0, MaxT, 1>>, <<0, 0, 1>>}

\* phi1 = pi/2 and phi2 = pi at rest: the notebook's initial conditions
YChaos == <<Angle(1, 0), 0, Angle(2, 0), 0>>

\* initial states of the solve_ode calls: the notebook's, the notebook's with
\* phi2 a little less than pi (its second run), and one with phi2 = 0 turning
\* at nearly the largest velocity
Y0s ==
    {YChaos,
     <<Angle(1, 0), 0, Angle(2, -1), 0>>,
     <<Angle(1, 0), 0, Angle(0, 0), FloatMax - 1>>}

\* constructor arguments <<L1, L2, m1, m2, g>> of the shared model: the
\* notebook's, a heavier second bob, and an arm of length zero
SolveParams == {<<1, 1, 1, 1, 1>>, <<1, 1, 1, 2, 1>>, <<0, 1, 1, 1, 1>>}

NoProbe == [t |-> 0, y |-> Y00, out |-> <<>>]

Init ==
    /\ ctor \in SolveParams
    /\ self = DoublePendulum(ctor[1], ctor[2], ctor[3], ctor[4], ctor[5])
    /\ frame = [c \in Calls |-> IdleFrame]
    /\ probe = NoProbe

Next ==
    \/ \E c \in Calls, t_pts \in TGrids, y0 \in Y0s : SolveOde(c, t_pts, y0)
    \/ \E c \in Calls : Step(c)
    \/ \E c \in Calls : Return(c)
    \/ DyDtCall(MaxT, YChaos)

Spec == Init /\ [][Next]_vars

(* --------------------- dy_dt as a function of its inputs -------------- *)

\* the angles of the lattice within one turn
Angles == {Angle(q, j) : q \in 0..3, j \in {-1, 0, 1}}

Velocities == {-1, 0, 2}

DerivStates ==
    {<<a1, v1, a2, v2>> : a1 \in Angles, v1 \in Velocities,
                          a2 \in Angles, v2 \in Velocities}

\* constructor arguments <<L1, L2, m1, m2, g>>, zero masses and a zero L1 among them
DerivParams == (0..2) \X (1..2) \X (0..2) \X (0..2) \X (1..2)

InitDeriv ==
    /\ ctor \in DerivParams
    /\ self = DoublePendulum(ctor[1], ctor[2], ctor[3], ctor[4], ctor[5])
    /\ frame = [c \in Calls |-> IdleFrame]
    /\ probe \in [t : {0, MaxT}, y : DerivStates, out : {<<>>}]

\* the call of dy_dt on the inputs drawn
DyDtApply ==
    /\ probe.out = <<>>
    /\ DyDtCall(probe.t, probe.y)

NextDeriv == DyDtApply

SpecDeriv == InitDeriv /\ [][NextDeriv]_vars

(* ------------------------------- claims ------------------------------- *)

Done(c) == frame[c].pc \in {"returned", "raised"}

\* the five parameters are those of a physical pendulum
ValidParams ==
    self.L1 > 0 /\ self.L2 > 0 /\ self.m1 > 0 /\ self.m2 > 0 /\ self.g > 0

\* t_pts has at least two entries and is strictly increasing
ValidGrid(t_pts) ==
    /\ Len(t_pts) >= 2
    /\ \A i \in 1..(Len(t_pts) - 1) : t_pts[i] < t_pts[i + 1]

\* C1: for a strictly increasing t_pts of N >= 2 entries, every solve_ode
\* call that has ended has returned four columns of exactly N samples, taken
\* at the times t_pts in order, also when the solver stopped early.
C1_AllSamplesReturned ==
    \A c \in Calls :
        (Done(c) /\ ValidParams /\ ValidGrid(frame[c].t_pts)) =>
            /\ frame[c].pc = "returned"
            /\ frame[c].sol_t = frame[c].t_pts
            /\ \A r \in 1..4 : Len(frame[c].ret[r]) = Len(frame[c].t_pts)

\* C2: a call whose t_pts has fewer than two entries or is not strictly
\* increasing ends in an error, and no derivative evaluation or solver step
\* is made for it.
C2_BadGridRejectedUnsolved ==
    \A c \in Calls :
        (frame[c].pc # "idle" /\ ValidParams /\ ~ValidGrid(frame[c].t_pts)) =>
            /\ frame[c].nfev = 0
            /\ frame[c].status = "none"
            /\ Done(c) => frame[c].pc = "raised"

\* C3: a call whose solver has failed to reach t_pts[-1] does not return a
\* trajectory of fewer samples than t_pts: it ends in an error.
C3_SolverFailureSurfaced ==
    \A c \in Calls :
        (Done(c) /\ ValidParams /\ frame[c].status = "failed") =>
            frame[c].pc = "raised"

\* C4: with a non-positive mass or length no call reaches the solver or
\* evaluates the derivative.
C4_BadParamsRejectedUnsolved ==
    ~ValidParams =>
        \A c \in Calls : ~frame[c].invoked /\ frame[c].nfev = 0

\* C5: any two solve_ode calls on the model that were given the same t_pts
\* and the same initial state and have ended, ended the same way with the
\* same four columns, whatever was called before or between them.
C5_SolveDeterministic ==
    \A c1, c2 \in Calls :
        (Done(c1) /\ Done(c2) /\ frame[c1].t_pts = frame[c2].t_pts
           /\ frame[c1].y0 = frame[c2].y0) =>
            /\ frame[c1].pc = frame[c2].pc
            /\ frame[c1].exc = frame[c2].exc
            /\ frame[c1].ret = frame[c2].ret

\* two calls with the same valid inputs have both returned, the second
\* entered after a direct dy_dt call
C5_Witness ==
    /\ ValidParams
    /\ probe.out # <<>>
    /\ frame[1].pc = "returned" /\ frame[2].pc = "returned"
    /\ ValidGrid(frame[1].t_pts)
    /\ frame[1].t_pts = frame[2].t_pts /\ frame[1].y0 = frame[2].y0
    /\ Len(frame[1].ret[1]) = 3

\* C6: whatever the interleaving of the steps of the calls running on the
\* shared model, each call that has ended has ended as it would when run
\* alone: same outcome, same samples, same columns.
C6_ConcurrentCallsIsolated ==
    \A c \in Calls :
        Done(c) => frame[c] = solve_ode(self, frame[c].t_pts, frame[c].y0)

\* call 2, entered while call 1 was running, has returned three samples
\* while call 1, from another initial state, is still in its integration
C6_Witness ==
    /\ ValidParams
    /\ frame[1].pc = "stepping" /\ frame[1].nfev = 2
    /\ frame[2].pc = "returned" /\ Len(frame[2].ret[1]) = 3
    /\ frame[1].y0 # frame[2].y0

\* C7: in every reachable state, after any dy_dt and solve_ode calls, the
\* fields L1, L2, m1, m2, g of the model are the constructor's arguments.
C7_ParametersFixed ==
    /\ self.L1 = ctor[1]
    /\ self.L2 = ctor[2]
    /\ self.m1 = ctor[3]
    /\ self.m2 = ctor[4]
    /\ self.g = ctor[5]

\* a model with m1 # m2 after a returned solve_ode call and a dy_dt call
C7_Witness ==
    /\ ctor[3] # ctor[4]
    /\ probe.out # <<>>
    /\ \E c \in Calls : frame[c].pc = "returned" /\ frame[c].nfev > 2

\* C9: in a dy_dt call with m1 > 0 and m2 > 0, d >= m1 > 0, and with L1 > 0
\* and L2 > 0 as well both divisors L1*d and L2*d are strictly positive.
C9_DivisorsPositive ==
    (probe.out # <<>> /\ self.m1 > 0 /\ self.m2 > 0) =>
        /\ dy_dt_d(self, probe.y) >= self.m1 * Scale * Scale
        /\ self.m1 * Scale * Scale > 0
        /\ (self.L1 > 0 /\ self.L2 > 0) =>
              probe.out[2][2] > 0 /\ probe.out[4][2] > 0

\* a dy_dt call with positive masses and lengths, m2 > m1 and
\* sin(phi1 - phi2) = -1 or 1
C9_Witness ==
    /\ probe.out # <<>>
    /\ self.m1 > 0 /\ self.m2 > self.m1 /\ self.L1 > 0 /\ self.L2 > 0
    /\ Abs(np_sin(AngleSub(probe.y[1], probe.y[3]))) = Scale

\* steps 1 to 4 of the reference computation, in units of 1/Scale^2:
\* d, the numerator of phi1_ddot and the numerator of phi2_ddot
RefCosp(y) == np_cos(AngleSub(y[1], y[3]))

RefSinp(y) == np_sin(AngleSub(y[1], y[3]))

RefD(p, y) == p[3] * Scale * Scale + p[4] * RefSinp(y) * RefSinp(y)

RefNum1(p, y) ==
    p[4] * p[5] * np_sin(y[3]) * RefCosp(y)
      - p[4] * RefSinp(y) * (p[1] * y[2] * y[2] * RefCosp(y) + p[2] * y[4] * y[4] * Scale)
      - (p[3] + p[4]) * p[5] * np_sin(y[1]) * Scale

RefNum2(p, y) ==
    (p[3] + p[4]) * (p[1] * y[2] * y[2] * RefSinp(y) * Scale
                       - p[5] * np_sin(y[3]) * Scale
                       + p[5] * np_sin(y[1]) * RefCosp(y))
      + p[4] * p[2] * y[4] * y[4] * RefSinp(y) * RefCosp(y)

\* C10: the result of dy_dt(t, y) is, for every t, the 4-tuple of the
\* reference: components 0 and 2 are y[1] and y[3] of the input, components
\* 1 and 3 the two accelerations with the divisors L1*d and L2*d.
C10_DerivativeIsReference ==
    probe.out # <<>> =>
        /\ probe.out[1] = probe.y[2]
        /\ probe.out[3] = probe.y[4]
        /\ probe.out[2] = <<RefNum1(ctor, probe.y), ctor[1] * RefD(ctor, probe.y)>>
        /\ probe.out[4] = <<RefNum2(ctor, probe.y), ctor[2] * RefD(ctor, probe.y)>>

\* a dy_dt call at a time other than 0 in which every term of both
\* accelerations is non-zero and L1 # L2
C10_Witness ==
    /\ probe.out # <<>>
    /\ probe.t # 0
    /\ ValidParams /\ self.L1 # self.L2 /\ self.m1 # self.m2
    /\ RefSinp(probe.y) * RefCosp(probe.y) # 0
    /\ np_sin(probe.y[1]) * np_sin(probe.y[3]) # 0
    /\ probe.y[2] # 0 /\ probe.y[4] # 0 /\ probe.y[2] # probe.y[4]

====
